---- MODULE Spec2Model ----
(***************************************************************************)
(* The interview lifecycle of src/main.py: the Job / Candidate / Interview *)
(* rows, and the request handlers that change them (trigger_interview,     *)
(* voice_event, voice_record, get_interview, simulate_answers).            *)
(*                                                                         *)
(* Scheduling.  Every handler is an `async def` run on one event loop, so  *)
(* a handler runs without interruption from one `await` that really        *)
(* suspends to the next.  The suspending awaits are the httpx requests     *)
(* (lines 214, 494, 614); the OpenAI calls (lines 197, 221, 235) are       *)
(* synchronous calls inside a coroutine and never yield.  One action of    *)
(* this module is one such uninterrupted segment; a suspended handler is   *)
(* an element of `tasks`.                                                  *)
(*                                                                         *)
(* Persistence.  Interview.answers is a plain JSON column (line 85), with  *)
(* no mutation tracking.  At commit the unit of work writes an attribute   *)
(* only when its value differs from the value it held when it was          *)
(* assigned; see Committed below.                                          *)
(***************************************************************************)
EXTENDS Integers, Sequences, FiniteSets, TLC

\* ------------------------------------------------------------- bounds
MaxJobs == 1
MaxQuestions == 2
MaxCandidates == 1
MaxInterviews == 1
MaxTasks == 1
MaxPerAnswer == 2
\* the delivery scenarios (SpecDelivery): callbacks in flight at once, and
\* acknowledged callbacks remembered
MaxConcurrent == 2
MaxLog == 2

\* names in a requested artifact path
MaxPath == 3

\* qs[:7], line 210
MaxGenerated == 7

\* ------------------------------------------------------------- values
None == "None"

\* Interview.status as documented on line 83
DocumentedStatuses == {"created", "calling", "in_progress", "completed", "failed"}

\* the set literal of line 594
TerminalEvents == {"completed", "failed", "timeout", "rejected"}

\* status strings a provider event may carry
EventStatuses == TerminalEvents \cup {"ringing"}

\* recording locators of a callback; "" stands for a payload without one
RecUrls == {"u1", "u2"}

\* q_idx is any integer (line 606); MaxQuestions is outside every job's
\* questions
QIdxInputs == 0 .. MaxQuestions

Min(a, b) == IF a < b THEN a ELSE b

\* phone numbers as typed by a caller; "" stands for a missing field
PhoneInputs == {"", "bad", "+1 415-555-0100"}

\* to_e164, lines 166-173: the E.164 form, or "" where the code raises 400
to_e164(phone) ==
    IF phone = "+1 415-555-0100" THEN "+14155550100" ELSE ""

\* ensure_whitelisted, lines 175-177: TRUE where the code raises 403
NotWhitelisted(whitelist, phone_e164) ==
    whitelist # {} /\ phone_e164 \notin whitelist

\* the text of question k (0-based) of job j, as generated on line 337
QuestionText(j, k) == <<"question", j, k>>

\* the placeholder of line 637 for an index outside the job's questions
FallbackText(q_idx) == <<"Q", 0, q_idx + 1>>

\* env         the configuration read at import (lines 40, 49)
\* jobs, candidates, interviews   the three tables, a row's id its position
\* tasks       the handlers suspended in a network request
\* lastOp      the response of the step just taken
\* scored      the interviews for which a read has stored a Scorer result
\* cfg         how many handlers may be suspended at once, and how many
\*             acknowledged callbacks `log` remembers (0: none)
\* log         the callbacks acknowledged with 200, in order of persistence
\* overlap     for a callback in flight, the indices persisted for the same
\*             interview since it started
VARIABLES env, jobs, candidates, interviews, tasks, scored, lastOp, cfg, log, overlap

vars == <<env, jobs, candidates, interviews, tasks, scored, lastOp, cfg, log, overlap>>

\* ------------------------------------------------------------- responses
NoSnap == [status |-> "", answers |-> <<>>, final_recommendation |-> None]

\* what the step just taken did and answered: the handler, the interview it
\* names, the HTTP status, (for reads) the Scorer call and the snapshot, and
\* (for artifacts) the file the request resolved to
Resp(op, id, code, note) ==
    [op |-> op, id |-> id, code |-> code, note |-> note,
     scorer |-> "none", squestions |-> <<>>, stranscripts |-> <<>>,
     snap |-> NoSnap, path |-> <<>>]

Suspended(op, id) == Resp(op, id, 0, "suspended")

\* ------------------------------------------------------------- Init
Init ==
    /\ env \in [dev : BOOLEAN, whitelist : {{}, {"+14155550199"}}]
    /\ env.dev => env.whitelist = {}
    /\ jobs = <<>>
    /\ candidates = <<>>
    /\ interviews = <<>>
    /\ tasks = {}
    /\ scored = {}
    /\ lastOp = Resp("init", 0, 0, "")
    /\ cfg = [capacity |-> MaxTasks, log |-> 0]
    /\ log = [entries |-> <<>>, complete |-> TRUE]
    /\ overlap = {}

\* ------------------------------------------------------------- /v1/jd
\* jd_to_questions, lines 322-342: a Job with the n questions the generator
\* returned (at most MaxGenerated, possibly none)
jd_to_questions(n) ==
    /\ Len(jobs) < MaxJobs
    /\ jobs' = Append(jobs,
           [questions |-> [k \in 1 .. Min(n, MaxGenerated) |-> QuestionText(Len(jobs) + 1, k - 1)]])
    /\ lastOp' = Resp("jd_to_questions", Len(jobs) + 1, 200, "")
    /\ UNCHANGED <<env, candidates, interviews, tasks, scored, cfg, log, overlap>>

\* ------------------------------------------------------------- /v1/candidates
add_candidate(name, phone) ==
    LET e164 == to_e164(phone) IN
    IF e164 = ""
    THEN /\ lastOp' = Resp("add_candidate", 0, 400, "rejected")
         /\ UNCHANGED <<env, jobs, candidates, interviews, tasks, scored, cfg, log, overlap>>
    ELSE IF ~env.dev /\ NotWhitelisted(env.whitelist, e164)
    THEN /\ lastOp' = Resp("add_candidate", 0, 403, "rejected")
         /\ UNCHANGED <<env, jobs, candidates, interviews, tasks, scored, cfg, log, overlap>>
    ELSE /\ Len(candidates) < MaxCandidates
         /\ candidates' = Append(candidates, [name |-> name, phone_e164 |-> e164])
         /\ lastOp' = Resp("add_candidate", Len(candidates) + 1, 200, "")
         /\ UNCHANGED <<env, jobs, interviews, tasks, scored, cfg, log, overlap>>

\* ------------------------------------------------------------- /v1/interviews
\* get_latest_job, lines 184-185 (0: no job)
get_latest_job == Len(jobs)

\* lines 414-416: the job a trigger resolves to (0: the code raises 404)
ResolveJob(job_id) ==
    IF job_id # 0
    THEN (IF job_id \in 1 .. Len(jobs) THEN job_id ELSE 0)
    ELSE get_latest_job

\* line 434: the Interview row a trigger inserts
NewInterview(job, cand) ==
    [job_id |-> job, candidate_id |-> cand, status |-> "calling",
     provider_call_id |-> None, answers |-> <<>>, final_recommendation |-> None]

TriggerTask(id) ==
    [op |-> "trigger", pc |-> "post", id |-> id, q_idx |-> 0, url |-> ""]

\* lines 431-512 up to the first suspension, for the resolved job and
\* candidate rows `cands` (the candidates table after lines 418-429):
\* the row is inserted; in development mode the call is simulated (438-460);
\* otherwise the credentials are built (483-486, `cred` FALSE: the code
\* raises 500) and the handler suspends in hx.post (494)
Dispatch(job, cands, cand) ==
    LET id == Len(interviews) + 1 IN
    /\ Len(interviews) < MaxInterviews
    /\ candidates' = cands
    /\ \E cred \in BOOLEAN :
       IF env.dev
          THEN /\ interviews' = Append(interviews,
                      [NewInterview(job, cand) EXCEPT !.provider_call_id = "dev_call",
                                                      !.status = "in_progress"])
               /\ lastOp' = Resp("trigger", id, 200, "dev")
               /\ UNCHANGED tasks
          ELSE IF ~cred
          THEN /\ interviews' = Append(interviews, NewInterview(job, cand))
               /\ lastOp' = Resp("trigger", id, 500, "no_credentials")
               /\ UNCHANGED tasks
          ELSE /\ Cardinality(tasks) < cfg.capacity
               /\ interviews' = Append(interviews, NewInterview(job, cand))
               /\ tasks' = tasks \cup {TriggerTask(id)}
               /\ lastOp' = Suspended("trigger", id)
    /\ UNCHANGED <<env, jobs, scored, cfg, log, overlap>>

\* a trigger that inserts its row before it validates the request
TriggerRejected_RowFirst(code, note) ==
    /\ Len(interviews) < MaxInterviews
    /\ interviews' = Append(interviews, NewInterview(0, 0))
    /\ lastOp' = Resp("trigger", 0, code, note)
    /\ UNCHANGED <<env, jobs, candidates, tasks, scored, cfg, log, overlap>>

\* lines 416, 421, 424, 173, 177: the request is refused before any row of
\* the interviews table is written
TriggerRejected(code, note) ==
    /\ lastOp' = Resp("trigger", 0, code, note)
    /\ UNCHANGED <<env, jobs, candidates, interviews, tasks, scored, cfg, log, overlap>>

\* trigger_interview, lines 411-512, first segment.  job_id and candidate_id
\* 0, name and phone "": the field is absent (or empty, which line 414, 418
\* and 423 treat alike)
trigger_interview(job_id, candidate_id, name, phone) ==
    LET job == ResolveJob(job_id)
        e164 == to_e164(phone)
    IN
    IF job = 0 THEN TriggerRejected(404, "no_job")
    ELSE IF candidate_id # 0
    THEN IF candidate_id \notin 1 .. Len(candidates)
         THEN TriggerRejected(404, "no_candidate")
         ELSE Dispatch(job, candidates, candidate_id)
    ELSE IF name = "" \/ phone = "" THEN TriggerRejected(400, "no_candidate_fields")
    ELSE IF e164 = "" THEN TriggerRejected(400, "invalid_phone")
    ELSE IF ~env.dev /\ NotWhitelisted(env.whitelist, e164)
    THEN TriggerRejected(403, "not_whitelisted")
    ELSE /\ Len(candidates) < MaxCandidates
         /\ Dispatch(job, Append(candidates, [name |-> name, phone_e164 |-> e164]),
                     Len(candidates) + 1)

\* what the dispatch request of line 494 may come back with
DispatchOutcomes == {"ok", "ok_no_uuid", "http_error", "transport_error", "bad_json"}

\* lines 494-514 after the suspension: the provider's answer is handled
trigger_resume(t, outcome) ==
    /\ t \in tasks /\ t.op = "trigger"
    /\ tasks' = tasks \ {t}
    /\ IF outcome = "http_error"
       THEN \* lines 499-504
            /\ interviews' = [interviews EXCEPT ![t.id].status = "failed"]
            /\ lastOp' = Resp("trigger", t.id, 401, outcome)
       ELSE IF outcome \in {"transport_error", "bad_json"}
       THEN \* hx.post (494) or r.json() (505) raises: nothing catches it
            /\ lastOp' = Resp("trigger", t.id, 500, outcome)
            /\ UNCHANGED interviews
       ELSE \* lines 506-514
            /\ interviews' = [interviews EXCEPT
                   ![t.id].provider_call_id = IF outcome = "ok" THEN "uuid" ELSE None,
                   ![t.id].status = "in_progress"]
            /\ lastOp' = Resp("trigger", t.id, 200, outcome)
    /\ UNCHANGED <<env, jobs, candidates, scored, cfg, log, overlap>>

\* ------------------------------------------------------------- /v1/voice/event
\* an event handler that stores whatever terminal status the provider reports
EventStatus_Reported(current, status) == status

\* line 598: the status an event leaves on a row that is not completed
EventStatus(current, status) == IF status # "completed" THEN status ELSE current

\* voice_event, lines 590-602.  n = 0: no such interview (or no n at all).
\* The answer is always 200 OK; the note keeps the status that was reported
voice_event(n, status) ==
    /\ interviews' =
         IF status \in TerminalEvents /\ n \in 1 .. Len(interviews)
            /\ interviews[n].status # "completed"
         THEN [interviews EXCEPT ![n].status = EventStatus(interviews[n].status, status)]
         ELSE interviews
    /\ lastOp' = Resp("voice_event", IF n \in 1 .. Len(interviews) THEN n ELSE 0, 200, status)
    /\ UNCHANGED <<env, jobs, candidates, tasks, scored, cfg, log, overlap>>

\* ------------------------------------------------------------- answers
\* the dict of lines 650-656 (no "score" key: has_score FALSE).
\* scored_transcript is not in the dict: it keeps the transcript the Scorer
\* was given when it produced the score
NewAnswer(q_idx, question, url, local, transcript) ==
    [q_idx |-> q_idx, question |-> question, recording_url |-> url,
     local_audio |-> local, transcript |-> transcript,
     has_score |-> FALSE, score |-> 0, rationale |-> None, scored_transcript |-> ""]

HasIdx(answers, q_idx) == \E k \in 1 .. Len(answers) : answers[k].q_idx = q_idx

FirstIdx(answers, q_idx) ==
    CHOOSE k \in 1 .. Len(answers) :
        /\ answers[k].q_idx = q_idx
        /\ \A m \in 1 .. k - 1 : answers[m].q_idx # q_idx

\* lines 638-656: update the first answer with this index (641-646 leave its
\* score and rationale), or append a new one
Upsert(answers, new) ==
    IF HasIdx(answers, new.q_idx)
    THEN [answers EXCEPT ![FirstIdx(answers, new.q_idx)] =
              [@ EXCEPT !.question = new.question,
                        !.recording_url = new.recording_url,
                        !.local_audio = new.local_audio,
                        !.transcript = new.transcript]]
    ELSE Append(answers, new)

\* Session.commit() for an assignment to the JSON attribute answers: the
\* unit of work compares the assigned value with the value the attribute
\* held at the assignment, as that value is at flush time, and writes the
\* column only when they differ.  stored: the column; remembered: the former
\* value at flush time; assigned: the new value
Committed(stored, remembered, assigned) ==
    IF assigned = remembered THEN stored ELSE assigned

\* a handler whose change of the loaded list reaches the column
RecordedAnswers_Written(stored, new) == Upsert(stored, new)

\* a handler that appends every arrival to a copy of the list
RecordedAnswers_Append(stored, new) == Append(stored, new)

\* lines 635-658: the answers column after a recording is persisted.
\* `inter.answers or []` (635) is the loaded list itself unless it is empty,
\* so the loop of 639-656 changes the loaded list in place and line 657
\* assigns the attribute the object it already holds
RecordedAnswers(stored, new) ==
    LET in_place == stored # <<>>
        answers == Upsert(stored, new)
    IN Committed(stored, IF in_place THEN answers ELSE stored, answers)

\* line 637
QuestionOf(job, q_idx) ==
    IF 0 <= q_idx /\ q_idx < Len(jobs[job].questions)
    THEN jobs[job].questions[q_idx + 1]
    ELSE FallbackText(q_idx)

\* ------------------------------------------------------------- /v1/voice/record
RecordTask(id, q_idx, url) ==
    [op |-> "voice_record", pc |-> "fetch", id |-> id, q_idx |-> q_idx, url |-> url]

\* voice_record, lines 606-614: the payload is read and the download starts.
\* interview_id = 0: an id no row has.  url = "": line 610
voice_record(interview_id, q_idx, url) ==
    IF url = ""
    THEN /\ lastOp' = Resp("voice_record", 0, 400, "no_recording_url")
         /\ UNCHANGED <<env, jobs, candidates, interviews, tasks, scored, cfg, log, overlap>>
    ELSE /\ Cardinality(tasks) < cfg.capacity
         /\ RecordTask(interview_id, q_idx, url) \notin tasks
         /\ tasks' = tasks \cup {RecordTask(interview_id, q_idx, url)}
         /\ lastOp' = Suspended("voice_record", interview_id)
         /\ UNCHANGED <<env, jobs, candidates, interviews, scored, cfg, log, overlap>>

\* what openai_transcribe_from_url (212-225) and lines 625-628 leave in
\* `transcript`: the text of the recording, an empty text, or the sentinel
Sentinel == "(transcription_failed)"

TextOf(url) == IF url = "u1" THEN "text1" ELSE "text2"

Transcripts(url) == {TextOf(url), "", Sentinel}

\* `log` after one more acknowledged callback
Logged(entry) ==
    IF cfg.log = 0 THEN log
    ELSE IF Len(log.entries) < cfg.log
    THEN [log EXCEPT !.entries = Append(@, entry)]
    ELSE [log EXCEPT !.complete = FALSE]

\* lines 614-616: the download of the recording fails (transport error or
\* raise_for_status); nothing catches it
voice_record_failed(t) ==
    /\ t \in tasks /\ t.op = "voice_record"
    /\ tasks' = tasks \ {t}
    /\ lastOp' = Resp("voice_record", t.id, 500, "download_failed")
    /\ overlap' = {o \in overlap : o.pending # t}
    /\ UNCHANGED <<env, jobs, candidates, interviews, scored, cfg, log>>

\* a handler that also marks the interview in progress when it stores
WithAnswers_InProgress(inter, answers) ==
    [inter EXCEPT !.answers = answers, !.status = "in_progress"]

\* lines 657-658: the only attribute of the row the handler assigns
WithAnswers(inter, answers) == [inter EXCEPT !.answers = answers]

\* a handler that acknowledges a callback for an interview it does not find
RecordNotFound_Acknowledged(t) ==
    /\ lastOp' = Resp("voice_record", t.id, 200, "append")
    /\ overlap' = {o \in overlap : o.pending # t}
    /\ UNCHANGED <<interviews, log>>

\* lines 632-634: no row has the id of the callback
RecordNotFound(t) ==
    /\ lastOp' = Resp("voice_record", t.id, 404, "interview_not_found")
    /\ overlap' = {o \in overlap : o.pending # t}
    /\ UNCHANGED <<interviews, log>>

\* lines 616-660: the downloads (614, and 214 inside the transcriber, between
\* which nothing shared is touched) have returned, the recording is
\* transcribed and the answer persisted
voice_record_persist(t, transcript) ==
    /\ t \in tasks /\ t.op = "voice_record"
    /\ tasks' = tasks \ {t}
    /\ IF t.id \notin 1 .. Len(interviews)
       THEN RecordNotFound(t)
       ELSE LET inter == interviews[t.id]
                new == NewAnswer(t.q_idx, QuestionOf(inter.job_id, t.q_idx), t.url,
                                 <<"/v1/artifacts", t.id, t.q_idx>>, transcript)
            IN /\ interviews' = [interviews EXCEPT
                       ![t.id] = WithAnswers(inter, RecordedAnswers(inter.answers, new))]
               /\ lastOp' = Resp("voice_record", t.id, 200,
                                 IF HasIdx(inter.answers, t.q_idx) THEN "update" ELSE "append")
               /\ log' = Logged(<<t.id, t.q_idx, t.url, transcript>>)
               /\ overlap' = {o \in overlap : o.pending # t} \cup
                             {[done |-> t.q_idx, pending |-> t2] :
                                 t2 \in {x \in tasks \ {t} : x.op = "voice_record" /\ x.id = t.id}}
    /\ UNCHANGED <<env, jobs, candidates, scored, cfg>>

\* the callbacks drawn: any index, with one locator or none, for an
\* interview that exists, and one callback for an id that does not
RecordInputs ==
    {<<0, 0, "u1">>} \cup
    {<<id, q, u>> : id \in 1 .. Len(interviews), q \in QIdxInputs, u \in {"u1", ""}}

\* ------------------------------------------------------------- /v1/dev/simulate-answers
\* lines 535-544: one fabricated answer per question
FakeAnswers(id, questions) ==
    [k \in 1 .. Len(questions) |->
        NewAnswer(k - 1, questions[k], <<"fake-recording", id, k - 1>>,
                  <<"/v1/dev/fake-audio", id, k - 1>>, "fake")]

\* simulate_answers, lines 518-562
simulate_answers(id) ==
    IF ~env.dev
    THEN /\ lastOp' = Resp("simulate_answers", 0, 400, "rejected")
         /\ UNCHANGED <<env, jobs, candidates, interviews, tasks, scored, cfg, log, overlap>>
    ELSE IF id \notin 1 .. Len(interviews)
    THEN /\ lastOp' = Resp("simulate_answers", 0, 404, "rejected")
         /\ UNCHANGED <<env, jobs, candidates, interviews, tasks, scored, cfg, log, overlap>>
    ELSE LET inter == interviews[id]
             answers == FakeAnswers(id, jobs[inter.job_id].questions)
         IN /\ interviews' = [interviews EXCEPT
                    ![id].answers = Committed(inter.answers, inter.answers, answers),
                    ![id].status = "completed"]
            /\ lastOp' = Resp("simulate_answers", id, 200, "")
            /\ UNCHANGED <<env, jobs, candidates, tasks, scored, cfg, log, overlap>>

\* ------------------------------------------------------------- /v1/interviews/{id}
\* sorted(..., key=q_idx), line 672: stable
RECURSIVE InsertByIdx(_, _)
InsertByIdx(sorted, a) ==
    IF sorted = <<>> \/ sorted[Len(sorted)].q_idx <= a.q_idx
    THEN Append(sorted, a)
    ELSE Append(InsertByIdx(SubSeq(sorted, 1, Len(sorted) - 1), a), sorted[Len(sorted)])

RECURSIVE SortByIdx(_)
SortByIdx(answers) ==
    IF answers = <<>> THEN <<>>
    ELSE InsertByIdx(SortByIdx(SubSeq(answers, 1, Len(answers) - 1)), answers[Len(answers)])

\* line 673
TranscriptsOf(answers) == [k \in 1 .. Len(answers) |-> answers[k].transcript]

\* line 674
HaveAll(answers_sorted, questions) ==
    /\ Len(answers_sorted) = Len(questions)
    /\ \A k \in 1 .. Len(answers_sorted) : answers_sorted[k].transcript # ""

\* line 676: the read calls the Scorer
NeedsScoring(inter, answers_sorted, questions) ==
    /\ HaveAll(answers_sorted, questions)
    /\ \/ inter.final_recommendation = None
       \/ ~ \E k \in 1 .. Len(answers_sorted) : answers_sorted[k].has_score

\* what openai_score (227-249) may return: per-answer results and a
\* recommendation (None: the key is missing), or an exception (ok FALSE).
\* Line 249 is the result with no per-answer entries.  The scores drawn
\* differ from one index to another
ScoreOf(q_idx) == IF q_idx = 0 THEN 5 ELSE 2

ScorerItems == {[q_idx |-> q, score |-> ScoreOf(q)] : q \in QIdxInputs}

PerAnswerLists == UNION {[1 .. n -> ScorerItems] : n \in 0 .. MaxPerAnswer}

Recommendations == {None, "Yes", "No"}

ScorerOutcomes ==
    {[ok |-> FALSE, per_answer |-> <<>>, recommendation |-> None]} \cup
    [ok : {TRUE}, per_answer : PerAnswerLists, recommendation : Recommendations]

\* line 680: the last entry of per_answer with this index (0: none)
ByIdx(pa, q_idx) ==
    LET ks == {k \in 1 .. Len(pa) : pa[k].q_idx = q_idx}
    IN IF ks = {} THEN 0 ELSE CHOOSE k \in ks : \A m \in ks : m <= k

RationaleOf(score) == IF score = 5 THEN "strong" ELSE "weak"

\* lines 681-685
ApplyScores(answers_sorted, pa) ==
    [k \in 1 .. Len(answers_sorted) |->
        LET b == ByIdx(pa, answers_sorted[k].q_idx) IN
        IF b = 0 THEN answers_sorted[k]
        ELSE [answers_sorted[k] EXCEPT !.has_score = TRUE,
                                       !.score = pa[b].score,
                                       !.rationale = RationaleOf(pa[b].score),
                                       !.scored_transcript = answers_sorted[k].transcript]]

\* lines 691-692
StatusAfterScoring(status) ==
    IF status \notin {"completed", "failed"} THEN "completed" ELSE status

Snapshot(status, answers, rec) ==
    [status |-> status, answers |-> answers, final_recommendation |-> rec]

\* a read that marks the interview completed although the Scorer failed
ScoringSwallowed_Completes(id, called) ==
    /\ lastOp' = [called EXCEPT !.scorer = "fail"]
    /\ interviews' = [interviews EXCEPT ![id].status = "completed"]
    /\ UNCHANGED <<env, jobs, candidates, tasks, scored, cfg, log, overlap>>

\* lines 694-695: the Scorer (or the handling of its reply) raised; the
\* exception is dropped and nothing was written
ScoringSwallowed(id, called) ==
    /\ lastOp' = [called EXCEPT !.scorer = "fail"]
    /\ UNCHANGED <<env, jobs, candidates, interviews, tasks, scored, cfg, log, overlap>>

\* get_interview, lines 664-711.  The handler never suspends: openai_score is
\* awaited but makes a blocking call
get_interview(id) ==
    IF id \notin 1 .. Len(interviews)
    THEN /\ lastOp' = Resp("get_interview", 0, 404, "rejected")
         /\ UNCHANGED <<env, jobs, candidates, interviews, tasks, scored, cfg, log, overlap>>
    ELSE
    LET inter == interviews[id]
        questions == jobs[inter.job_id].questions
        answers_sorted == SortByIdx(inter.answers)
        transcripts == TranscriptsOf(answers_sorted)
        read == [Resp("get_interview", id, 200, "") EXCEPT
                    !.snap = Snapshot(inter.status, answers_sorted,
                                      inter.final_recommendation)]
    IN
    IF ~NeedsScoring(inter, answers_sorted, questions)
    THEN /\ lastOp' = read
         /\ UNCHANGED <<env, jobs, candidates, interviews, tasks, scored, cfg, log, overlap>>
    ELSE \E scoring \in ScorerOutcomes :
         LET called == [read EXCEPT !.squestions = questions,
                                    !.stranscripts = transcripts]
             scored_answers == ApplyScores(answers_sorted, scoring.per_answer)
         IN
         IF ~scoring.ok
         THEN ScoringSwallowed(id, called)
         ELSE \* lines 679-693
              /\ interviews' = [interviews EXCEPT
                     ![id].answers = Committed(inter.answers, inter.answers, scored_answers),
                     ![id].final_recommendation = scoring.recommendation,
                     ![id].status = StatusAfterScoring(inter.status)]
              /\ scored' = scored \cup {id}
              /\ lastOp' = [called EXCEPT
                     !.scorer = "ok",
                     !.snap = Snapshot(inter.status, scored_answers,
                                       scoring.recommendation)]
              /\ UNCHANGED <<env, jobs, candidates, tasks, cfg, log, overlap>>

\* the triggers drawn: a candidate id (1 .. MaxCandidates + 1, the last one
\* never a row's), or name and phone, either of which may be missing
TriggerInputs ==
    {<<j, c, "", "">> : j \in 0 .. MaxJobs + 1, c \in 1 .. MaxCandidates + 1} \cup
    {<<j, 0, "n", p>> : j \in 0 .. MaxJobs + 1, p \in PhoneInputs} \cup
    {<<j, 0, "", "+1 415-555-0100">> : j \in 0 .. MaxJobs + 1}

\* the events drawn: any status for an interview that exists, one event for
\* an id that does not
EventInputs ==
    {<<0, "completed">>} \cup
    {<<n, st>> : n \in 1 .. Len(interviews), st \in EventStatuses}

Next ==
    \/ \E n \in 0 .. MaxQuestions : jd_to_questions(n)
    \/ \E name \in {"n"}, phone \in PhoneInputs : add_candidate(name, phone)
    \/ \E i \in TriggerInputs : trigger_interview(i[1], i[2], i[3], i[4])
    \/ \E t \in tasks, outcome \in DispatchOutcomes : trigger_resume(t, outcome)
    \/ \E e \in EventInputs : voice_event(e[1], e[2])
    \/ \E r \in RecordInputs : voice_record(r[1], r[2], r[3])
    \/ \E t \in tasks : voice_record_failed(t)
    \/ \E t \in tasks : \E transcript \in Transcripts(t.url) :
            voice_record_persist(t, transcript)
    \/ \E id \in 0 .. MaxInterviews : get_interview(id)
    \/ \E id \in 0 .. MaxInterviews : simulate_answers(id)

Spec == Init /\ [][Next]_vars

\* ------------------------------------------------------------- deliveries
\* The recording callbacks of one interview in progress, two of them in
\* flight at once, with the acknowledged ones remembered: the state Spec
\* reaches when a production trigger has returned 200
InitDelivery ==
    /\ env = [dev |-> FALSE, whitelist |-> {}]
    /\ \E n \in 1 .. MaxQuestions :
           jobs = <<[questions |-> [k \in 1 .. n |-> QuestionText(1, k - 1)]]>>
    /\ candidates = <<[name |-> "n", phone_e164 |-> "+14155550100"]>>
    /\ interviews = <<[NewInterview(1, 1) EXCEPT !.provider_call_id = "uuid",
                                                !.status = "in_progress"]>>
    /\ tasks = {}
    /\ scored = {}
    /\ lastOp = Resp("trigger", 1, 200, "ok")
    /\ cfg = [capacity |-> MaxConcurrent, log |-> MaxLog]
    /\ log = [entries |-> <<>>, complete |-> TRUE]
    /\ overlap = {}

\* the callbacks drawn: the provider's, one per question of the job (line
\* 473), with either locator; each recording is transcribed to its text
DeliveryInputs ==
    {<<1, q, u>> : q \in 0 .. Len(jobs[1].questions) - 1, u \in RecUrls}

NextDelivery ==
    \/ \E r \in DeliveryInputs : voice_record(r[1], r[2], r[3])
    \/ \E t \in tasks : voice_record_failed(t)
    \/ \E t \in tasks : voice_record_persist(t, TextOf(t.url))
    \/ get_interview(1)

SpecDelivery == InitDelivery /\ [][NextDelivery]_vars

\* ------------------------------------------------------------- reads until scored
\* The callbacks of the delivery scenario, with every outcome of the
\* Transcriber (a text, an empty text, a failure), and reads that go on until
\* the Scorer answers with a recommendation

\* a read of the interview whose Scorer call answers with a recommendation
ScoringRead ==
    /\ get_interview(1)
    /\ lastOp'.scorer = "ok"
    /\ lastOp'.snap.final_recommendation # None

NextReads ==
    \/ \E r \in DeliveryInputs : voice_record(r[1], r[2], r[3])
    \/ \E t \in tasks : voice_record_persist(t, TextOf(t.url))
    \/ \E t \in tasks : voice_record_persist(t, "")
    \/ \E t \in tasks : voice_record_persist(t, Sentinel)
    \/ get_interview(1)

\* an accepted callback runs to its end, with whatever the Transcriber gave
CallbackEnds ==
    \E t \in tasks : \E transcript \in Transcripts(t.url) :
        voice_record_persist(t, transcript)

\* the event loop runs every accepted request to its end, the client goes on
\* reading, and the Scorer does not fail for ever
SpecReads ==
    /\ InitDelivery
    /\ [][NextReads]_vars
    /\ WF_vars(CallbackEnds)
    /\ WF_vars(get_interview(1))
    /\ WF_vars(ScoringRead)

\* ------------------------------------------------------------- two interviews
\* Two interviews of one job and one candidate, one in progress and one
\* whose dispatch failed to start (still calling), and the callbacks and
\* reads of both
InitTwo ==
    /\ env = [dev |-> FALSE, whitelist |-> {}]
    /\ \E n \in 1 .. MaxQuestions :
           jobs = <<[questions |-> [k \in 1 .. n |-> QuestionText(1, k - 1)]]>>
    /\ candidates = <<[name |-> "n", phone_e164 |-> "+14155550100"]>>
    /\ interviews = <<[NewInterview(1, 1) EXCEPT !.provider_call_id = "uuid",
                                                !.status = "in_progress"],
                      NewInterview(1, 1)>>
    /\ tasks = {}
    /\ scored = {}
    /\ lastOp = Resp("trigger", 2, 500, "no_credentials")
    /\ cfg = [capacity |-> MaxConcurrent, log |-> 0]
    /\ log = [entries |-> <<>>, complete |-> TRUE]
    /\ overlap = {}

TwoInputs ==
    {<<id, q, "u1">> : id \in 0 .. Len(interviews), q \in 0 .. Len(jobs[1].questions) - 1}

NextTwo ==
    \/ \E r \in TwoInputs : voice_record(r[1], r[2], r[3])
    \/ \E t \in tasks : voice_record_failed(t)
    \/ \E t \in tasks : voice_record_persist(t, TextOf(t.url))
    \/ \E id \in 1 .. Len(interviews) : get_interview(id)

SpecTwo == InitTwo /\ [][NextTwo]_vars

\* ------------------------------------------------------------- the event loop
\* The Transcriber is called through the synchronous OpenAI client (line 113,
\* call at line 221) from inside the coroutine: while the call is out, the
\* one thread that runs every handler is inside it.  A callback whose
\* downloads have returned is then at "transcribe" until the call returns

\* no handler is inside a synchronous call: the loop can run a handler
LoopFree == \A t \in tasks : t.pc # "transcribe"

\* lines 214-221: the downloads have returned and the Transcriber is called
transcribe_call(t) ==
    /\ t \in tasks /\ t.op = "voice_record" /\ t.pc = "fetch"
    /\ tasks' = (tasks \ {t}) \cup {[t EXCEPT !.pc = "transcribe"]}
    /\ overlap' = {IF o.pending = t THEN [o EXCEPT !.pending.pc = "transcribe"] ELSE o :
                      o \in overlap}
    /\ UNCHANGED <<env, jobs, candidates, interviews, scored, lastOp, cfg, log>>

\* lines 221-660: the Transcriber returns (or raises) and the answer is
\* persisted without another suspension
transcribe_return(t, transcript) ==
    /\ t.pc = "transcribe"
    /\ voice_record_persist(t, transcript)

\* a result read, and a call-status event, as the loop runs them
read_when_free == LoopFree /\ get_interview(1)

event_when_free == LoopFree /\ \E status \in {"ringing", "failed"} : voice_event(1, status)

record_when_free == LoopFree /\ \E r \in DeliveryInputs : voice_record(r[1], r[2], r[3])

NextBlocking ==
    \/ record_when_free
    \/ LoopFree /\ \E t \in tasks : transcribe_call(t)
    \/ \E t \in tasks : transcribe_return(t, TextOf(t.url))
    \/ \E t \in tasks : transcribe_return(t, Sentinel)
    \/ read_when_free
    \/ event_when_free

SpecBlocking == InitDelivery /\ [][NextBlocking]_vars

\* ------------------------------------------------------------- /v1/artifacts
\* A file name is a sequence of pieces ("artifacts_old" is <<"artifacts",
\* "_old">>), a path a sequence of names, and the text of a path the pieces of
\* its names, each name after a "/": a prefix of the text is a prefix of the
\* string the code compares.

\* line 55: abspath("./artifacts"), with the working directory /app
ARTIFACTS_DIR == << <<"app">>, <<"artifacts">> >>

Parent == <<"..">>

\* the names a request is made of: the store's own name, a sibling whose
\* name begins with it, a file, and the parent directory
Names == {<<"artifacts">>, <<"artifacts", "_old">>, <<"f">>, Parent}

Paths == UNION {[1 .. n -> Names] : n \in 1 .. MaxPath}

\* os.path.join, line 716: a path that starts with "/" replaces the root
join(root, path, absolute) == IF absolute THEN path ELSE root \o path

\* os.path.abspath, line 717: ".." removes the name before it (none at "/")
RECURSIVE Normalised(_, _)
Normalised(done, rest) ==
    IF rest = <<>> THEN done
    ELSE IF Head(rest) = Parent
    THEN Normalised(IF done = <<>> THEN done ELSE SubSeq(done, 1, Len(done) - 1),
                    Tail(rest))
    ELSE Normalised(Append(done, Head(rest)), Tail(rest))

abspath(path) == Normalised(<<>>, path)

RECURSIVE Text(_)
Text(path) ==
    IF path = <<>> THEN <<>> ELSE <<"/">> \o Head(path) \o Text(Tail(path))

\* str.startswith, line 717
startswith(text, prefix) ==
    Len(text) >= Len(prefix) /\ SubSeq(text, 1, Len(prefix)) = prefix

\* the path names a regular file (the one file name drawn) when it exists
IsFile(path) == path # <<>> /\ path[Len(path)] = <<"f">>

\* serve_artifact, lines 715-721.  exists: something is at the resolved
\* path; FileResponse (line 721) sends it when it is a regular file and fails
\* when it is a directory
serve_artifact(path, absolute, exists) ==
    LET ap == join(ARTIFACTS_DIR, path, absolute)
        served == Resp("serve_artifact", 0, 200, "file")
    IN /\ lastOp' =
            IF ~startswith(Text(abspath(ap)), Text(ARTIFACTS_DIR))
            THEN [Resp("serve_artifact", 0, 403, "invalid_path") EXCEPT !.path = abspath(ap)]
            ELSE IF ~exists
            THEN [Resp("serve_artifact", 0, 404, "not_found") EXCEPT !.path = abspath(ap)]
            ELSE IF ~IsFile(abspath(ap))
            THEN [Resp("serve_artifact", 0, 500, "not_a_file") EXCEPT !.path = abspath(ap)]
            ELSE [served EXCEPT !.path = abspath(ap)]
       /\ UNCHANGED <<env, jobs, candidates, interviews, tasks, scored, cfg, log, overlap>>

NextArtifact ==
    \E path \in Paths, absolute \in BOOLEAN, exists \in BOOLEAN :
        serve_artifact(path, absolute, exists)

SpecArtifact == Init /\ [][NextArtifact]_vars

\* ------------------------------------------------------------- claims
Ids == 1 .. Len(interviews)

QuestionsOf(i) == jobs[interviews[i].job_id].questions

ReadOrCallback == {"voice_record", "voice_event", "get_interview"}

\* C1: every interview holds at most as many answers as its job has
\* questions, whatever callbacks, events and reads have run
C1_AnswersWithinQuestions ==
    \A i \in Ids : Len(interviews[i].answers) <= Len(QuestionsOf(i))

\* C2: a recording callback, a call-status event or a read never changes a
\* status that is completed or failed
C2_TerminalStatusKept ==
    [][\A i \in Ids :
          (interviews[i].status \in {"completed", "failed"} /\ lastOp'.op \in ReadOrCallback)
          => interviews'[i].status = interviews[i].status]_vars

UniqueIdx(answers) ==
    \A k, m \in 1 .. Len(answers) : answers[k].q_idx = answers[m].q_idx => k = m

\* C3: no two answers of an interview have the same question index
C3_UniqueQuestionIndex == \A i \in Ids : UniqueIdx(interviews[i].answers)

\* a callback has just been persisted for an index that already had an
\* answer, on an interview a read has scored
C3_ReplayedAfterScoring ==
    /\ lastOp.op = "voice_record" /\ lastOp.code = 200 /\ lastOp.note = "update"
    /\ lastOp.id \in scored
    /\ Len(interviews[lastOp.id].answers) > 1

\* the answers a recording callback stored (not the simulated ones)
Recorded(id, a) == a.local_audio = <<"/v1/artifacts", id, a.q_idx>>

\* C4: a second callback for a question's index leaves exactly one answer for it, with
\* the second delivery's locator and transcript, and the other answers as
\* they were
C4_ReplayOverwrites ==
    [][\A t \in tasks : \A tr \in Transcripts(t.url) :
          (/\ t.op = "voice_record" /\ t.id \in Ids
           /\ t.q_idx < Len(QuestionsOf(t.id))
           /\ \E k \in 1 .. Len(interviews[t.id].answers) :
                 /\ interviews[t.id].answers[k].q_idx = t.q_idx
                 /\ Recorded(t.id, interviews[t.id].answers[k])
           /\ voice_record_persist(t, tr))
          => LET before == interviews[t.id].answers
                 after == interviews'[t.id].answers
             IN /\ Cardinality({k \in 1 .. Len(after) : after[k].q_idx = t.q_idx}) = 1
                /\ \A k \in 1 .. Len(after) :
                      after[k].q_idx = t.q_idx
                      => after[k].recording_url = t.url /\ after[k].transcript = tr
                /\ {before[k] : k \in {m \in 1 .. Len(before) : before[m].q_idx # t.q_idx}}
                   = {after[k] : k \in {m \in 1 .. Len(after) : after[m].q_idx # t.q_idx}}]_vars

\* the acknowledged callbacks are one per question of the job
OnePerQuestion(entries, n) ==
    /\ log.complete /\ Len(entries) = n
    /\ {entries[k][2] : k \in 1 .. n} = 0 .. n - 1

\* the same callbacks in ascending order of index
Ascending(entries) ==
    [k \in 1 .. Len(entries) |->
        entries[CHOOSE m \in 1 .. Len(entries) : entries[m][2] = k - 1]]

\* the answers column after the callbacks `entries`, delivered in this order
\* to an interview of job 1 that has no answer yet
RECURSIVE Delivered(_, _)
Delivered(stored, entries) ==
    IF entries = <<>> THEN stored
    ELSE LET e == Head(entries)
         IN Delivered(RecordedAnswers(stored,
                          NewAnswer(e[2], QuestionOf(1, e[2]), e[3],
                                    <<"/v1/artifacts", e[1], e[2]>>, e[4])),
                      Tail(entries))

Core(answers) ==
    [k \in 1 .. Len(answers) |->
        <<answers[k].q_idx, answers[k].recording_url, answers[k].transcript>>]

\* C5: one callback per question, in any order, leaves the answers that the
\* ascending order leaves (sorted by index), every index with its transcript
C5_OrderIndependent ==
    OnePerQuestion(log.entries, Len(QuestionsOf(1)))
    => /\ Core(SortByIdx(interviews[1].answers))
          = Core(SortByIdx(Delivered(<<>>, Ascending(log.entries))))
       /\ \A k \in 1 .. Len(log.entries) :
             \E m \in 1 .. Len(interviews[1].answers) :
                /\ interviews[1].answers[m].q_idx = log.entries[k][2]
                /\ interviews[1].answers[m].transcript = log.entries[k][4]

\* C6: once a read has stored a Scorer result with its recommendation for an
\* interview (of a job that has questions), a later read does not call the
\* Scorer and returns the stored recommendation
C6_ScoredOnce ==
    [][\A i \in scored :
          (/\ lastOp'.op = "get_interview" /\ lastOp'.id = i /\ lastOp'.code = 200
           /\ interviews[i].final_recommendation # None
           /\ Len(QuestionsOf(i)) > 0)
          => /\ lastOp'.scorer = "none"
             /\ lastOp'.snap.final_recommendation = interviews[i].final_recommendation]_vars

\* C7: a final_recommendation that holds a value is neither replaced nor
\* cleared by a read, a recording callback or a call-status event
C7_RecommendationSetOnce ==
    [][\A i \in Ids :
          (/\ interviews[i].final_recommendation # None
           /\ lastOp'.op \in ReadOrCallback
           /\ Len(QuestionsOf(i)) > 0)
          => interviews'[i].final_recommendation = interviews[i].final_recommendation]_vars

\* C8: when a callback finishes after a callback for another index of the
\* same interview finished while it was in flight, both answers are stored
C8_ConcurrentBothRetained ==
    [][\A t \in tasks :
          (t.op = "voice_record" /\ t.id \in Ids /\ voice_record_persist(t, TextOf(t.url)))
          => \A o \in overlap :
                (o.pending = t /\ o.done # t.q_idx)
                => /\ HasIdx(interviews'[t.id].answers, o.done)
                   /\ HasIdx(interviews'[t.id].answers, t.q_idx)]_vars

\* the ways a dispatch fails: the provider refuses, the request does not
\* complete, the credentials cannot be built
DispatchFailures == {"http_error", "transport_error", "no_credentials"}

\* C9: a trigger whose dispatch failed returns an error and leaves its
\* interview failed, with no provider_call_id
C9_DispatchFailureFails ==
    (lastOp.op = "trigger" /\ lastOp.note \in DispatchFailures)
    => /\ lastOp.code >= 400
       /\ interviews[lastOp.id].status = "failed"
       /\ interviews[lastOp.id].provider_call_id = None

NoCandidate(x) == x[2] = 0 /\ (x[3] = "" \/ x[4] = "")

Refusals == {"no_job", "no_candidate", "no_candidate_fields", "invalid_phone"}

\* C10 as stated: a trigger with neither candidate_id nor name and phone
\* answers 400 and adds no row; a trigger refused for its job, candidate or
\* phone adds no row
C10_NoCandidateIs400 ==
    [][/\ lastOp'.op = "trigger"
          => \A i \in {x \in TriggerInputs : NoCandidate(x)} :
                trigger_interview(i[1], i[2], i[3], i[4])
                => lastOp'.code = 400 /\ interviews' = interviews
       /\ (lastOp'.op = "trigger" /\ lastOp'.note \in Refusals)
             => interviews' = interviews]_vars

\* C10, amended: such a trigger answers 400 when its job resolves and 404
\* when it does not, and adds no row; a trigger refused for its job,
\* candidate or phone adds no row
C10_RefusedTriggerAddsNoRow ==
    [][/\ lastOp'.op = "trigger"
          => \A i \in {x \in TriggerInputs : NoCandidate(x)} :
                trigger_interview(i[1], i[2], i[3], i[4])
                => /\ lastOp'.code = IF ResolveJob(i[1]) = 0 THEN 404 ELSE 400
                   /\ interviews' = interviews
       /\ (lastOp'.op = "trigger" /\ lastOp'.note \in Refusals)
             => interviews' = interviews]_vars

\* a trigger without candidate fields has just been refused with 400 while
\* an interview exists
C10_RefusedWithRows ==
    /\ lastOp.op = "trigger" /\ lastOp.note = "no_candidate_fields" /\ lastOp.code = 400
    /\ Len(interviews) > 0

\* C11: a callback whose transcription failed, for a question that has no
\* answer yet, is acknowledged and leaves an answer for that question with
\* the sentinel transcript, which is not empty
\* and so counts as transcribed when completeness is decided
C11_TranscriberFailureStored ==
    [][\A t \in tasks :
          (/\ t.op = "voice_record" /\ t.id \in Ids
           /\ t.q_idx < Len(QuestionsOf(t.id))
           /\ ~HasIdx(interviews[t.id].answers, t.q_idx)
           /\ voice_record_persist(t, Sentinel))
          => /\ lastOp'.code = 200
             /\ Sentinel # ""
             /\ \E k \in 1 .. Len(interviews'[t.id].answers) :
                   /\ interviews'[t.id].answers[k].q_idx = t.q_idx
                   /\ interviews'[t.id].answers[k].transcript = Sentinel]_vars

ScorerFailed(op) == op.op = "get_interview" /\ op.scorer = "fail"

\* C12: a read whose Scorer call fails answers 200 with the stored answers
\* and recommendation, writes nothing, and a read that follows it calls the
\* Scorer again
C12_ScorerFailureSwallowed ==
    [][/\ ScorerFailed(lastOp')
          => /\ lastOp'.code = 200
             /\ interviews' = interviews
             /\ lastOp'.snap = Snapshot(interviews[lastOp'.id].status,
                                        SortByIdx(interviews[lastOp'.id].answers),
                                        interviews[lastOp'.id].final_recommendation)
       /\ (ScorerFailed(lastOp) /\ lastOp'.op = "get_interview" /\ lastOp'.id = lastOp.id)
          => lastOp'.scorer # "none"]_vars

\* a read of an interview with every answer present has just had its Scorer
\* call fail
C12_ScorerJustFailed ==
    /\ ScorerFailed(lastOp) /\ lastOp.code = 200
    /\ Len(interviews[lastOp.id].answers) > 0
    /\ HaveAll(SortByIdx(interviews[lastOp.id].answers), QuestionsOf(lastOp.id))

\* C13: the Scorer is called with the job's questions and as many
\* transcripts, the transcript at position i being that of the answer with
\* index i; a score is written on the answer whose index the result names
C13_ScorerInputsAligned ==
    (lastOp.op = "get_interview" /\ lastOp.scorer # "none")
    => LET n == Len(QuestionsOf(lastOp.id))
           answers == interviews[lastOp.id].answers
       IN /\ lastOp.squestions = QuestionsOf(lastOp.id)
          /\ Len(lastOp.stranscripts) = n
          /\ \A i \in 0 .. n - 1 :
                \E k \in 1 .. Len(answers) :
                   /\ answers[k].q_idx = i
                   /\ answers[k].transcript = lastOp.stranscripts[i + 1]
          /\ \A k \in 1 .. Len(answers) :
                answers[k].has_score => answers[k].score = ScoreOf(answers[k].q_idx)

\* C14: the status of every interview is one of created, calling,
\* in_progress, completed, failed
C14_StatusInDocumentedSet ==
    \A i \in Ids : interviews[i].status \in DocumentedStatuses

\* C15: an event that reports completed for an interview in progress leaves
\* it completed
C15_CompletedEventCompletes ==
    [][\A i \in Ids :
          (interviews[i].status = "in_progress" /\ voice_event(i, "completed"))
          => interviews'[i].status = "completed"]_vars

\* C16: an event whose status is not terminal, or that names no interview,
\* changes no interview; an event that reports completed leaves a completed
\* or failed interview with its status
C16_OtherEventsChangeNothing ==
    [][lastOp'.op = "voice_event"
       => /\ (lastOp'.note \notin TerminalEvents \/ lastOp'.id = 0)
             => interviews' = interviews
          /\ (lastOp'.note = "completed" /\ lastOp'.id # 0
              /\ interviews[lastOp'.id].status \in {"completed", "failed"})
             => interviews'[lastOp'.id].status = interviews[lastOp'.id].status]_vars

\* an event reporting completed has just been handled for a failed interview
C16_CompletedOnFailed ==
    /\ lastOp.op = "voice_event" /\ lastOp.note = "completed" /\ lastOp.id # 0
    /\ interviews[lastOp.id].status = "failed"

\* C17: a read that scores an interview (of a job with questions) whose status is failed, timeout or
\* rejected leaves that status; one that scores an interview that is calling
\* or in progress leaves it completed
C17_ScoringKeepsProviderStatus ==
    [][(lastOp'.op = "get_interview" /\ lastOp'.scorer = "ok"
        /\ Len(QuestionsOf(lastOp'.id)) > 0)
       => LET before == interviews[lastOp'.id].status
              after == interviews'[lastOp'.id].status
          IN /\ before \in {"failed", "timeout", "rejected"} => after = before
             /\ before \in {"calling", "in_progress"} => after = "completed"]_vars

\* a callback has been answered that named no interview
UnknownAnswered(op) == op.op = "voice_record" /\ op.id \notin Ids /\ op.code # 0

\* C18 as stated: a callback (with a locator) that names no interview is
\* answered 404 and changes no interview; a callback for an interview that
\* exists is not refused for its question index
C18_UnknownInterviewIs404 ==
    [][/\ (UnknownAnswered(lastOp') /\ lastOp'.note # "no_recording_url")
          => lastOp'.code = 404 /\ interviews' = interviews
       /\ \A t \in tasks : \A tr \in Transcripts(t.url) :
             (t.op = "voice_record" /\ t.id \in Ids /\ voice_record_persist(t, tr))
             => lastOp'.code = 200]_vars

\* C18, amended: such a callback is answered 404 once its recording has been
\* downloaded and 500 when the download fails, and changes no interview
\* either way; a callback for an interview that exists is not refused for its
\* question index
C18_UnknownInterviewRefused ==
    [][/\ (UnknownAnswered(lastOp') /\ lastOp'.note # "no_recording_url")
          => /\ lastOp'.code = IF lastOp'.note = "download_failed" THEN 500 ELSE 404
             /\ interviews' = interviews
       /\ \A t \in tasks : \A tr \in Transcripts(t.url) :
             (t.op = "voice_record" /\ voice_record_persist(t, tr))
             => lastOp'.code = IF t.id \in Ids THEN 200 ELSE 404]_vars

\* a callback that names no interview has just been answered 404 while an
\* interview exists
C18_NotFoundWithRows ==
    /\ UnknownAnswered(lastOp) /\ lastOp.code = 404
    /\ Len(interviews) > 0

\* C19: while a downstream call made for one request is pending, a result
\* read and a call-status event for the same interview can be handled
C19_PendingCallDelaysOnlyItsRequest ==
    tasks # {} => (ENABLED read_when_free /\ ENABLED event_when_free)

\* the file is the store root or below it
InsideStore(file) ==
    Len(file) >= Len(ARTIFACTS_DIR) /\ SubSeq(file, 1, Len(ARTIFACTS_DIR)) = ARTIFACTS_DIR

\* C20: a request whose path resolves outside the artifact store, a sibling
\* directory whose name begins with the store's name included, is refused:
\* every file served is inside the store
C20_ServedInsideStore ==
    (lastOp.op = "serve_artifact" /\ ~InsideStore(lastOp.path)) => lastOp.code >= 400

\* C21: a read calls the Scorer only when every question index of the job
\* has an answer with a transcript that is not empty
C21_ScoredOnlyWhenComplete ==
    (lastOp.op = "get_interview" /\ lastOp.scorer # "none")
    => \A i \in 0 .. Len(QuestionsOf(lastOp.id)) - 1 :
          \E k \in 1 .. Len(interviews[lastOp.id].answers) :
             /\ interviews[lastOp.id].answers[k].q_idx = i
             /\ interviews[lastOp.id].answers[k].transcript # ""

\* C23: an interview that is calling has no provider_call_id; a
\* provider_call_id changes only from none, by the trigger step that records
\* a successful dispatch and takes the interview from calling to in_progress
C23_CallIdSetByDispatchOnly ==
    [][/\ \A i \in 1 .. Len(interviews') :
             interviews'[i].status = "calling" => interviews'[i].provider_call_id = None
       /\ \A i \in Ids :
             interviews'[i].provider_call_id # interviews[i].provider_call_id
             => /\ interviews[i].provider_call_id = None
                /\ lastOp'.op = "trigger" /\ lastOp'.code = 200 /\ lastOp'.id = i
                /\ interviews[i].status = "calling"
                /\ interviews'[i].status = "in_progress"]_vars

\* C25: a trigger that finishes after an event or a scoring read made its
\* interview completed or failed leaves that status
C25_TriggerKeepsTerminalStatus ==
    [][\A i \in Ids :
          (/\ lastOp'.op = "trigger" /\ lastOp'.id = i /\ lastOp'.code # 0
           /\ interviews[i].status \in {"completed", "failed"})
          => interviews'[i].status = interviews[i].status]_vars

\* C26: the snapshot a read returns (for a job with questions) is the stored
\* interview as the read leaves it: its status, its answers in index order with their scores, and
\* its final_recommendation
C26_SnapshotIsStored ==
    (lastOp.op = "get_interview" /\ lastOp.code = 200 /\ Len(QuestionsOf(lastOp.id)) > 0)
    => lastOp.snap = Snapshot(interviews[lastOp.id].status,
                              SortByIdx(interviews[lastOp.id].answers),
                              interviews[lastOp.id].final_recommendation)

\* C24: a step of a recording callback changes no job, no candidate and no
\* interview but the one it names, and of that one nothing but the answers
C24_CallbackChangesAnswersOnly ==
    [][lastOp'.op = "voice_record"
       => /\ jobs' = jobs /\ candidates' = candidates
          /\ Len(interviews') = Len(interviews)
          /\ \A i \in Ids :
                IF i = lastOp'.id
                THEN [interviews'[i] EXCEPT !.answers = interviews[i].answers] = interviews[i]
                ELSE interviews'[i] = interviews[i]]_vars

\* a callback has just stored an answer for the second interview while the
\* first one holds an answer too
C24_StoredBesideAnother ==
    /\ lastOp.op = "voice_record" /\ lastOp.code = 200 /\ lastOp.id = 2
    /\ Len(interviews) = 2
    /\ interviews[1].answers # <<>> /\ interviews[2].answers # <<>>

Concluded(i) ==
    interviews[i].status = "completed" /\ interviews[i].final_recommendation # None

\* C22: once one callback has been processed for every question of the job,
\* whatever its transcription gave, reads whose Scorer ends up answering lead
\* to the interview being completed with a final_recommendation
C22_ReadsConclude ==
    OnePerQuestion(log.entries, Len(QuestionsOf(1))) ~> Concluded(1)
====
